---- MODULE Spec2Model ----
(***************************************************************************)
(* Model of the prediction admission / queue / cache subsystem of ambia:   *)
(*   backend/lambda/prediction_scheduler/lambda_function.py  (Producer)    *)
(*   backend/lambda/claude_generator/lambda_function.py      (Consumer)    *)
(* The relational store (generation_queue, page_cache) is the only shared  *)
(* state.  Every SQL statement and every external call is one atomic step  *)
(* of the run that issues it, so overlapping runs interleave at statement  *)
(* granularity.  Time is counted in units of 30 minutes.                   *)
(***************************************************************************)
EXTENDS Integers, Sequences, FiniteSets, TLC

VARIABLES
    now,                \* the store's NOW() / datetime.now()
    generation_queue,   \* table generation_queue: sequence of rows, id = index
    page_cache,         \* table page_cache: sequence of rows
    cons,               \* consumer runs (claude_generator.lambda_handler)
    prod,               \* producer runs (prediction_scheduler.queue_predictions)
    sched,              \* the Producer's handler (prediction_scheduler.lambda_handler)
    quota               \* rows the model still lets Admit insert

vars == <<now, generation_queue, page_cache, cons, prod, sched, quota>>

\* ------------------------------------------------------------ constants

MAX_JOBS_PER_RUN == 10
MAX_ATTEMPTS == 3
\* confidences are counted in thousandths: 0.6 and 0.7
MIN_CONFIDENCE == 600
QUEUE_CONFIDENCE == 700
\* timedelta(minutes=30) and timedelta(hours=1) in units of 30 minutes
Minutes30 == 1
Hours1 == 2

\* ------------------------------------------------------------ bounds

MaxTime == 3        \* the clock stops advancing here
MaxQueue == 1       \* rows Admit may insert under Spec
MaxAdmit == 2       \* rows Admit may insert under SpecAdmit
MaxPatterns == 1    \* candidates handed to one queue_predictions call
BatchExtra == 1     \* eligible rows beyond MAX_JOBS_PER_RUN in InitBatch
SelectRows == 3     \* rows of the tables InitSelect draws
MaxLen == 2         \* characters of the queries InitKeys draws
MaxList == 2        \* candidates of the lists InitList draws

\* ------------------------------------------------------------ values

\* Strings are sequences of one-character strings (see below); the values
\* that stand beside them are sequences too, so that they compare.
NULL == <<>>                \* SQL NULL / Python None / ''
Absent == <<"absent">>      \* a key the pattern dict does not carry
\* uuid4(): a fresh identifier, the n-th one handed out
uuid4(n) == <<"uuid">> \o [i \in 1..n |-> "x"]

\* pattern['trigger_time']: missing, a string fromisoformat rejects, or a time
NoTrigger == [kind |-> "absent", t |-> 0]
BadTrigger == [kind |-> "bad", t |-> 0]
IsoTrigger(t) == [kind |-> "iso", t |-> t]

Min(a, b) == IF a <= b THEN a ELSE b

\* ------------------------------------------------------------ strings
\* A string is a sequence of one-character strings.

\* str.lower() on one character
LowerChar(c) ==
    CASE c = "M" -> "m"
      [] c = "W" -> "w"
      [] OTHER -> c

\* str.lower()
lower(s) == [i \in 1..Len(s) |-> LowerChar(s[i])]

\* str.strip(): drop leading and trailing whitespace
RECURSIVE lstrip(_)
lstrip(s) == IF s # <<>> /\ Head(s) = " " THEN lstrip(Tail(s)) ELSE s

RECURSIVE rstrip(_)
rstrip(s) ==
    IF s # <<>> /\ s[Len(s)] = " " THEN rstrip(SubSeq(s, 1, Len(s) - 1)) ELSE s

strip(s) == rstrip(lstrip(s))

\* md5(...).hexdigest()[:16], taken to be collision free on the inputs of
\* the model: the digest is represented by the string that was hashed.
md5_16(hash_input) == <<"md5">> \o hash_input

\* prediction_scheduler.generate_cache_key
generate_cache_key(user_id, query) ==
    LET normalized_query == strip(lower(query))
        hash_input == <<user_id, ":">> \o normalized_query
    IN  md5_16(hash_input)

\* A variant that hashes the query as given, neither folded nor trimmed
consumer_generate_cache_key_raw(user_id, query) ==
    md5_16(<<user_id, ":">> \o query)

\* claude_generator.generate_cache_key (the Consumer's copy)
consumer_generate_cache_key(user_id, query) ==
    LET normalized_query == strip(lower(query))
        hash_input == <<user_id, ":">> \o normalized_query
    IN  md5_16(hash_input)

\* Python truthiness of pattern.get(key, '')
Truthy(v) == v # Absent /\ v # NULL

\* ------------------------------------------------------------ selection

\* A variant whose WHERE clause lacks valid_until > NOW()
EligibleExpired(row, t, maxAttempts) ==
    /\ row.status = "queued"
    /\ row.scheduled_for <= t
    /\ row.attempts < maxAttempts

\* A variant whose WHERE clause also takes rows left in processing
EligibleOrProcessing(row, t, maxAttempts) ==
    /\ row.status \in {"queued", "processing"}
    /\ row.scheduled_for <= t
    /\ row.valid_until > t
    /\ row.attempts < maxAttempts

\* A variant whose WHERE clause lacks scheduled_for <= NOW()
EligibleUnscheduled(row, t, maxAttempts) ==
    /\ row.status = "queued"
    /\ row.valid_until > t
    /\ row.attempts < maxAttempts

\* WHERE clause of get_pending_jobs
Eligible(row, t, maxAttempts) ==
    /\ row.status = "queued"
    /\ row.scheduled_for <= t
    /\ row.valid_until > t
    /\ row.attempts < maxAttempts

\* A variant that orders by priority ASC
BeforeAscending(a, b) ==
    \/ a.priority < b.priority
    \/ a.priority = b.priority /\ a.scheduled_for < b.scheduled_for

\* ORDER BY priority DESC, scheduled_for ASC: a sorts strictly before b
Before(a, b) ==
    \/ a.priority > b.priority
    \/ a.priority = b.priority /\ a.scheduled_for < b.scheduled_for

\* The columns get_pending_jobs selects: the job dict a run keeps
JobOf(row) ==
    [id |-> row.id, user_id |-> row.user_id, priority |-> row.priority,
     predicted_need |-> row.predicted_need, context_data |-> row.context_data,
     scheduled_for |-> row.scheduled_for, valid_until |-> row.valid_until,
     attempts |-> row.attempts]

\* Every listing of at most n rows of S in ORDER BY order; the order of rows
\* that tie on (priority, scheduled_for) is not fixed by the statement.
RECURSIVE OrderedPrefixes(_, _)
OrderedPrefixes(S, n) ==
    IF n = 0 \/ S = {} THEN {<<>>}
    ELSE UNION { { <<x>> \o rest : rest \in OrderedPrefixes(S \ {x}, n - 1) } :
                 x \in { y \in S : \A z \in S : ~Before(z, y) } }

\* The SELECT of get_pending_jobs with its two parameters
SelectQuery(table, t, maxAttempts, limit) ==
    LET rows == { table[i] : i \in 1..Len(table) }
        hits == { row \in rows : Eligible(row, t, maxAttempts) }
    IN  { [i \in 1..Len(s) |-> JobOf(s[i])] : s \in OrderedPrefixes(hits, limit) }

\* A variant whose SELECT has no LIMIT
get_pending_jobs_unlimited(table, t) ==
    SelectQuery(table, t, MAX_ATTEMPTS, Len(table))

get_pending_jobs(table, t) ==
    SelectQuery(table, t, MAX_ATTEMPTS, MAX_JOBS_PER_RUN)

\* ------------------------------------------------------------ consumer
\* A consumer run: pc is the statement it is about to execute.  A run that
\* takes no part in a specification is "off".

Runs == {"r1", "r2"}

IdleRun ==
    [pc |-> "idle", limit |-> 0, jobs |-> <<>>, i |-> 0, cache_id |-> NULL,
     in_except |-> FALSE, jobs_processed |-> 0, pages_generated |-> 0,
     errors |-> 0, result |-> "none", claimed |-> 0, invoked |-> 0]

OffRun == [IdleRun EXCEPT !.pc = "off"]

Job(r) == cons[r].jobs[cons[r].i]

\* A variant whose loop takes the same item up a second time
NextJobRepeats(run) ==
    IF run.claimed < 2
    THEN [run EXCEPT !.pc = "mark", !.cache_id = NULL, !.in_except = FALSE]
    ELSE [run EXCEPT !.pc = "done", !.result = "summary", !.cache_id = NULL,
                     !.in_except = FALSE]

\* the loop `for job in jobs` moves on, or the run returns its summary
NextJob(run) ==
    IF run.i < Len(run.jobs)
    THEN [run EXCEPT !.pc = "mark", !.i = run.i + 1, !.cache_id = NULL,
                     !.in_except = FALSE]
    ELSE [run EXCEPT !.pc = "done", !.result = "summary", !.cache_id = NULL,
                     !.in_except = FALSE]

\* lambda_handler: the batch is fetched; an empty batch returns at once
StartRun(r, limit, jobs) ==
    /\ cons[r].pc = "idle"
    /\ cons' = [cons EXCEPT ![r] =
                  IF jobs = <<>>
                  THEN [IdleRun EXCEPT !.pc = "done", !.result = "summary",
                                       !.limit = limit]
                  ELSE [IdleRun EXCEPT !.pc = "mark", !.jobs = jobs, !.i = 1,
                                       !.limit = limit]]
    /\ UNCHANGED <<sched, quota, now, generation_queue, page_cache, prod>>

\* lambda_handler: connect, get_pending_jobs, the empty-batch return
GetPendingJobs(r) ==
    \E jobs \in get_pending_jobs(generation_queue, now) :
        StartRun(r, MAX_JOBS_PER_RUN, jobs)

\* the same with the LIMIT parameter of the SELECT set to k
GetPendingJobsLimit(r, k) ==
    \E jobs \in SelectQuery(generation_queue, now, MAX_ATTEMPTS, k) :
        StartRun(r, k, jobs)

\* update_job_status(connection, job_id, 'processing')
UpdateProcessing(r) ==
    /\ cons[r].pc = "mark"
    /\ generation_queue' =
         [generation_queue EXCEPT ![Job(r).id].status = "processing"]
    /\ cons' = [cons EXCEPT ![r].pc = "generate",
                            ![r].claimed = cons[r].claimed + 1]
    /\ UNCHANGED <<sched, quota, now, page_cache, prod>>

\* generate_components_with_claude: components, or None on any failure
GenerateComponents(r) ==
    /\ cons[r].pc = "generate"
    /\ \E components \in BOOLEAN :
         cons' = [cons EXCEPT ![r].pc = IF components THEN "store" ELSE "fail",
                              ![r].invoked = cons[r].invoked + 1]
    /\ UNCHANGED <<sched, quota, now, generation_queue, page_cache, prod>>

\* generate_components_with_claude where the capability fails (error,
\* timeout, empty or unparseable answer) at every call: None
GenerateFails(r) ==
    /\ cons[r].pc = "generate"
    /\ cons' = [cons EXCEPT ![r].pc = "fail",
                            ![r].invoked = cons[r].invoked + 1]
    /\ UNCHANGED <<sched, quota, now, generation_queue, page_cache, prod>>

\* A variant without the uniqueness constraint: no INSERT ever collides
CacheConflictNone(cache, user_id, cache_key) == {}

\* UNIQUE (user_id, cache_key) of page_cache: the row an INSERT collides with
CacheConflict(cache, user_id, cache_key) ==
    { n \in 1..Len(cache) :
        cache[n].user_id = user_id /\ cache[n].cache_key = cache_key }

\* store_in_page_cache: the key the result is stored under
StoreQuery(pattern) ==
    IF pattern.predicted_query # Absent THEN pattern.predicted_query
    ELSE IF pattern.predicted_action # Absent THEN pattern.predicted_action
    ELSE NULL

\* A variant whose UPDATE leaves valid_until as it was
UpdateEntryKeepValidity(entry, components, relevance_score, valid_until, t) ==
    [entry EXCEPT !.components = components,
                  !.relevance_score = relevance_score,
                  !.created_at = t]

\* store_in_page_cache: the SET clause of the UPDATE on IntegrityError
UpdateEntry(entry, components, relevance_score, valid_until, t) ==
    [entry EXCEPT !.components = components,
                  !.relevance_score = relevance_score,
                  !.valid_until = valid_until,
                  !.created_at = t]

\* store_in_page_cache: INSERT, or UPDATE on IntegrityError; returns cache_id
StoreInPageCache(r) ==
    /\ cons[r].pc = "store"
    /\ LET job == Job(r)
           pattern == job.context_data
           predicted_query == StoreQuery(pattern)
           cache_key == consumer_generate_cache_key(job.user_id, predicted_query)
           uuid == uuid4(Len(page_cache) + 1)
           valid_until == now + Minutes30
           hit == CacheConflict(page_cache, job.user_id, cache_key)
       IN  IF hit = {}
           THEN /\ page_cache' = Append(page_cache,
                      [id |-> uuid, user_id |-> job.user_id,
                       cache_key |-> cache_key, query |-> predicted_query,
                       components |-> job.id,
                       relevance_score |-> pattern.confidence,
                       valid_until |-> valid_until, created_at |-> now])
                /\ cons' = [cons EXCEPT ![r].pc = "complete",
                                        ![r].cache_id = uuid]
           ELSE /\ page_cache' =
                      [n \in 1..Len(page_cache) |->
                         IF page_cache[n].user_id = job.user_id
                            /\ page_cache[n].cache_key = cache_key
                         THEN UpdateEntry(page_cache[n], job.id,
                                          pattern.confidence, valid_until, now)
                         ELSE page_cache[n]]
                /\ cons' = [cons EXCEPT ![r].pc = "complete",
                                        ![r].cache_id = cache_key]
    /\ UNCHANGED <<sched, quota, now, generation_queue, prod>>

\* update_job_status(connection, job_id, 'completed', cache_id) and the counters
UpdateCompleted(r) ==
    /\ cons[r].pc = "complete"
    /\ generation_queue' =
         [generation_queue EXCEPT ![Job(r).id].status = "completed",
                                  ![Job(r).id].result_cache_key = cons[r].cache_id]
    /\ cons' = [cons EXCEPT ![r] =
                  NextJob([cons[r] EXCEPT
                             !.jobs_processed = cons[r].jobs_processed + 1,
                             !.pages_generated = cons[r].pages_generated + 1])]
    /\ UNCHANGED <<sched, quota, now, page_cache, prod>>

\* A store statement of the per-item try block raises: the except clause runs
StoreError(r) ==
    /\ cons[r].pc \in {"mark", "generate", "store", "complete"}
    /\ cons' = [cons EXCEPT ![r].pc = "fail", ![r].in_except = TRUE]
    /\ UNCHANGED <<sched, quota, now, generation_queue, page_cache, prod>>

\* A variant that writes the count of the job dict back unchanged
FailureAttemptsKept(job, stored) == job.attempts

\* A variant that increments the stored count (SET attempts = attempts + 1)
FailureAttemptsStored(job, stored) == stored + 1

\* handle_job_failure: attempts of the job dict plus one
FailureAttempts(job, stored) == job.attempts + 1

\* A variant whose failure path leaves the errors counter alone
HandleJobFailureUncounted(r) ==
    /\ cons[r].pc = "fail"
    /\ LET job == Job(r)
           attempts == FailureAttempts(job, generation_queue[job.id].attempts)
       IN  generation_queue' =
             [generation_queue EXCEPT
                ![job.id].status =
                    IF attempts >= MAX_ATTEMPTS THEN "failed" ELSE "queued",
                ![job.id].attempts = attempts]
    /\ cons' = [cons EXCEPT ![r] = NextJob(cons[r])]
    /\ UNCHANGED <<sched, quota, now, page_cache, prod>>

\* handle_job_failure and errors += 1
HandleJobFailure(r) ==
    /\ cons[r].pc = "fail"
    /\ LET job == Job(r)
           attempts == FailureAttempts(job, generation_queue[job.id].attempts)
       IN  generation_queue' =
             [generation_queue EXCEPT
                ![job.id].status =
                    IF attempts >= MAX_ATTEMPTS THEN "failed" ELSE "queued",
                ![job.id].attempts = attempts]
    /\ cons' = [cons EXCEPT ![r] =
                  NextJob([cons[r] EXCEPT !.errors = cons[r].errors + 1])]
    /\ UNCHANGED <<sched, quota, now, page_cache, prod>>

\* handle_job_failure raises: from the else branch the per-item except clause
\* catches it and calls handle_job_failure again; from the except clause it
\* reaches the handler's outer except and the run ends with statusCode 500
HandleJobFailureError(r) ==
    /\ cons[r].pc = "fail"
    /\ cons' = [cons EXCEPT ![r] =
                  IF cons[r].in_except
                  THEN [cons[r] EXCEPT !.pc = "done", !.result = "fatal"]
                  ELSE [cons[r] EXCEPT !.in_except = TRUE]]
    /\ UNCHANGED <<sched, quota, now, generation_queue, page_cache, prod>>

\* get_db_connection or get_pending_jobs raises: the outer except, statusCode 500
FatalSetup(r) ==
    /\ cons[r].pc = "idle"
    /\ cons' = [cons EXCEPT ![r] = [IdleRun EXCEPT !.pc = "done", !.result = "fatal"]]
    /\ UNCHANGED <<sched, quota, now, generation_queue, page_cache, prod>>

\* the handler has returned; the next scheduled invocation may start
Return(r) ==
    /\ cons[r].pc = "done"
    /\ cons' = [cons EXCEPT ![r] = IdleRun]
    /\ UNCHANGED <<sched, quota, now, generation_queue, page_cache, prod>>

\* the invocation is killed (Lambda timeout) between two statements
Crash(r) ==
    /\ cons[r].pc \in {"mark", "generate", "store", "complete", "fail"}
    /\ cons' = [cons EXCEPT ![r] = IdleRun]
    /\ UNCHANGED <<sched, quota, now, generation_queue, page_cache, prod>>

\* ------------------------------------------------------------ clock

Tick ==
    /\ now < MaxTime
    /\ now' = now + 1
    /\ UNCHANGED <<generation_queue, page_cache, cons, prod, sched, quota>>

\* ------------------------------------------------------------ producer

Users == {"u1", "u2"}
Producers == {"p1", "p2"}

Pattern(confidence, action, query, trigger) ==
    [confidence |-> confidence, predicted_action |-> action,
     predicted_query |-> query, trigger_time |-> trigger]

\* What the inference capability may return for a user
Candidates(user_id) ==
    IF user_id = "u1"
    THEN { Pattern(850, <<"m">>, <<"M", " ">>, IsoTrigger(0)),
           Pattern(900, <<"w">>, <<>>, NoTrigger),
           Pattern(650, <<"w">>, Absent, NoTrigger) }
    ELSE { Pattern(700, <<"m">>, Absent, BadTrigger) }

RECURSIVE SeqsUpTo(_, _)
SeqsUpTo(S, n) ==
    IF n = 0 THEN {<<>>}
    ELSE LET shorter == SeqsUpTo(S, n - 1)
         IN  shorter \cup { Append(s, x) : s \in shorter, x \in S }

\* analyze_patterns_with_llama: the patterns with confidence >= MIN_CONFIDENCE
analyze_patterns_with_llama(raw) ==
    SelectSeq(raw, LAMBDA pt : pt.confidence >= MIN_CONFIDENCE)

IdleProducer ==
    [pc |-> "idle", user_id |-> "none", patterns |-> <<>>, k |-> 0,
     trigger_time |-> 0, queued_count |-> 0]

OffProducer == [IdleProducer EXCEPT !.pc = "off"]

CurrentPattern(p) == prod[p].patterns[prod[p].k]

\* `continue` / the end of the loop body: the next pattern, or return queued_count
NextPattern(run) ==
    IF run.k < Len(run.patterns)
    THEN [run EXCEPT !.pc = "pattern", !.k = run.k + 1, !.trigger_time = 0]
    ELSE [run EXCEPT !.pc = "done", !.trigger_time = 0]

\* rows the producer runs in flight may still insert
RECURSIVE Reserved(_)
Reserved(P) ==
    IF P = {} THEN 0
    ELSE LET p == CHOOSE x \in P : TRUE
         IN  (IF prod[p].pc \in {"off", "idle", "done"} THEN 0
              ELSE Len(prod[p].patterns) - prod[p].k + 1)
             + Reserved(P \ {p})

\* queue_predictions(connection, user_id, patterns) is called with the
\* patterns that analyze_patterns_with_llama kept of raw
QueuePredictionsOf(p, user_id, raw) ==
    /\ prod[p].pc = "idle"
    /\ LET patterns == analyze_patterns_with_llama(raw)
       IN  /\ patterns # <<>>
           /\ Reserved(Producers) + Len(patterns) <= quota
           /\ prod' = [prod EXCEPT ![p] =
                         [IdleProducer EXCEPT !.pc = "pattern",
                                              !.user_id = user_id,
                                              !.patterns = patterns,
                                              !.k = 1]]
    /\ UNCHANGED <<sched, quota, now, generation_queue, page_cache, cons>>

\* lambda_handler: one user's patterns are handed to queue_predictions
QueuePredictions(p) ==
    \E user_id \in Users :
    \E raw \in SeqsUpTo(Candidates(user_id), MaxPatterns) :
        QueuePredictionsOf(p, user_id, raw)

\* A variant that tests against the inference filter's threshold
BelowMinConfidence(confidence) == confidence < MIN_CONFIDENCE

\* queue_predictions: `if confidence < QUEUE_CONFIDENCE: continue`
BelowQueueConfidence(confidence) == confidence < QUEUE_CONFIDENCE

\* queue_predictions: the confidence threshold and the trigger time
ParsePattern(p) ==
    /\ prod[p].pc = "pattern"
    /\ LET pattern == CurrentPattern(p)
           trigger == pattern.trigger_time
       IN  prod' = [prod EXCEPT ![p] =
             IF BelowQueueConfidence(pattern.confidence) THEN NextPattern(prod[p])
             ELSE IF trigger.kind = "bad" THEN NextPattern(prod[p])
             ELSE [prod[p] EXCEPT
                     !.pc = "checkA",
                     !.trigger_time = IF trigger.kind = "iso" THEN trigger.t
                                      ELSE now + Minutes30]]
    /\ UNCHANGED <<sched, quota, now, generation_queue, page_cache, cons>>

\* "Check if already in queue": the rows the SELECT returns
QueuedAhead(table, user_id, predicted_action, t) ==
    { i \in 1..Len(table) :
        /\ table[i].user_id = user_id
        /\ predicted_action # Absent
        /\ table[i].predicted_need = predicted_action
        /\ table[i].status = "queued"
        /\ table[i].scheduled_for > t }

\* queue_predictions: dedup against generation_queue
CheckQueue(p) ==
    /\ prod[p].pc = "checkA"
    /\ LET pattern == CurrentPattern(p)
       IN  prod' = [prod EXCEPT ![p] =
             IF QueuedAhead(generation_queue, prod[p].user_id,
                            pattern.predicted_action, now) # {}
             THEN NextPattern(prod[p])
             ELSE IF Truthy(pattern.predicted_query)
             THEN [prod[p] EXCEPT !.pc = "checkB"]
             ELSE [prod[p] EXCEPT !.pc = "insert"]]
    /\ UNCHANGED <<sched, quota, now, generation_queue, page_cache, cons>>

\* "Check if already in cache": the rows the SELECT returns
CachedLive(cache, user_id, cache_key, t) ==
    { n \in 1..Len(cache) :
        /\ cache[n].user_id = user_id
        /\ cache[n].cache_key = cache_key
        /\ cache[n].valid_until > t }

\* queue_predictions: dedup against page_cache
CheckCache(p) ==
    /\ prod[p].pc = "checkB"
    /\ LET pattern == CurrentPattern(p)
           cache_key == generate_cache_key(prod[p].user_id, pattern.predicted_query)
       IN  prod' = [prod EXCEPT ![p] =
             IF CachedLive(page_cache, prod[p].user_id, cache_key, now) # {}
             THEN NextPattern(prod[p])
             ELSE [prod[p] EXCEPT !.pc = "insert"]]
    /\ UNCHANGED <<sched, quota, now, generation_queue, page_cache, cons>>

\* int(confidence * 100) on a confidence in thousandths
Priority(confidence) == confidence \div 10

\* A variant whose row expires at its trigger time
QueueRowNoWindow(id, user_id, pattern, trigger_time) ==
    [id |-> id,
     user_id |-> user_id,
     priority |-> Priority(pattern.confidence),
     predicted_need |-> pattern.predicted_action,
     context_data |-> pattern,
     scheduled_for |-> trigger_time,
     valid_until |-> trigger_time,
     status |-> "queued",
     attempts |-> 0,
     result_cache_key |-> NULL]

\* queue_predictions: the row of the INSERT INTO generation_queue
\* (attempts and result_cache_key take the column defaults)
QueueRow(id, user_id, pattern, trigger_time) ==
    [id |-> id,
     user_id |-> user_id,
     priority |-> Priority(pattern.confidence),
     predicted_need |-> pattern.predicted_action,
     context_data |-> pattern,
     scheduled_for |-> trigger_time,
     valid_until |-> trigger_time + Hours1,
     status |-> "queued",
     attempts |-> 0,
     result_cache_key |-> NULL]

\* A variant whose statement replaces the table's rows by the new row
InsertQueueReplaces(p) ==
    /\ prod[p].pc = "insert"
    /\ quota > 0
    /\ quota' = quota - 1
    /\ generation_queue' =
         << QueueRow(1, prod[p].user_id, CurrentPattern(p), prod[p].trigger_time) >>
    /\ prod' = [prod EXCEPT ![p] =
                  NextPattern([prod[p] EXCEPT
                                 !.queued_count = prod[p].queued_count + 1])]
    /\ UNCHANGED <<sched, now, page_cache, cons>>

\* queue_predictions: INSERT INTO generation_queue, commit, queued_count += 1
InsertQueue(p) ==
    /\ prod[p].pc = "insert"
    /\ quota > 0
    /\ quota' = quota - 1
    /\ LET pattern == CurrentPattern(p)
           trigger_time == prod[p].trigger_time
       IN  generation_queue' = Append(generation_queue,
             QueueRow(Len(generation_queue) + 1, prod[p].user_id, pattern,
                      trigger_time))
    /\ prod' = [prod EXCEPT ![p] =
                  NextPattern([prod[p] EXCEPT
                                 !.queued_count = prod[p].queued_count + 1])]
    /\ UNCHANGED <<sched, now, page_cache, cons>>

\* A variant whose except clause leaves the loop over the patterns
QueueErrorAborts(p) ==
    /\ prod[p].pc \in {"checkA", "checkB", "insert"}
    /\ prod' = [prod EXCEPT ![p].pc = "done", ![p].trigger_time = 0]
    /\ UNCHANGED <<sched, quota, now, generation_queue, page_cache, cons>>

\* a statement of the per-pattern try block raises: rollback, continue
QueueError(p) ==
    /\ prod[p].pc \in {"checkA", "checkB", "insert"}
    /\ prod' = [prod EXCEPT ![p] = NextPattern(prod[p])]
    /\ UNCHANGED <<sched, quota, now, generation_queue, page_cache, cons>>

\* queue_predictions has returned queued_count
ProducerReturn(p) ==
    /\ prod[p].pc = "done"
    /\ prod' = [prod EXCEPT ![p] = IdleProducer]
    /\ UNCHANGED <<sched, quota, now, generation_queue, page_cache, cons>>

\* ------------------------------------------------------------ scheduler
\* prediction_scheduler.lambda_handler: the loop over the active users.  The
\* handler's queue_predictions call is producer run p1.

\* get_active_users: SELECT DISTINCT user_id, in any order
ActiveUsers ==
    { us \in SeqsUpTo(Users, Cardinality(Users)) :
        \A i, j \in 1..Len(us) : i # j => us[i] # us[j] }

IdleScheduler ==
    [pc |-> "idle", users |-> <<>>, u |-> 0, failed |-> {},
     total_patterns |-> 0, total_queued |-> 0, result |-> "none"]

OffScheduler == [IdleScheduler EXCEPT !.pc = "off"]

\* `continue` / the end of the loop body: the next user, or the summary
NextUser(s) ==
    IF s.u < Len(s.users)
    THEN [s EXCEPT !.pc = "user", !.u = s.u + 1]
    ELSE [s EXCEPT !.pc = "done", !.result = "summary"]

\* A variant in which a failed inference call ends the handler with status 500
InferenceFailedFatal(s, user_id) ==
    [s EXCEPT !.pc = "done", !.result = "fatal",
              !.failed = s.failed \cup {user_id}]

\* The inference capability fails for user_id: analyze_patterns_with_llama
\* returns [] (RequestException, KeyError, JSONDecodeError) and the handler
\* continues at `if not patterns`, or it raises another exception (IndexError,
\* TypeError, AttributeError on a malformed answer) and the per-user except
\* clause continues
InferenceFailed(s, user_id) ==
    [NextUser(s) EXCEPT !.failed = s.failed \cup {user_id}]

\* lambda_handler: connect and get_active_users
SchedulerStart ==
    /\ sched.pc = "idle"
    /\ \E users \in ActiveUsers :
         sched' = IF users = <<>>
                  THEN [IdleScheduler EXCEPT !.pc = "done", !.result = "summary"]
                  ELSE [IdleScheduler EXCEPT !.pc = "user", !.users = users,
                                             !.u = 1]
    /\ UNCHANGED <<quota, now, generation_queue, page_cache, cons, prod>>

\* get_db_connection or get_active_users raises: the outer except, statusCode 500
SchedulerFatal ==
    /\ sched.pc = "idle"
    /\ sched' = [IdleScheduler EXCEPT !.pc = "done", !.result = "fatal"]
    /\ UNCHANGED <<quota, now, generation_queue, page_cache, cons, prod>>

\* get_user_activity returns nothing, or raises: continue with the next user
SchedulerNoActivity ==
    /\ sched.pc = "user"
    /\ sched' = NextUser(sched)
    /\ UNCHANGED <<quota, now, generation_queue, page_cache, cons, prod>>

\* analyze_patterns_with_llama fails for the current user
SchedulerInferenceFails ==
    /\ sched.pc = "user"
    /\ sched' = InferenceFailed(sched, sched.users[sched.u])
    /\ UNCHANGED <<quota, now, generation_queue, page_cache, cons, prod>>

\* analyze_patterns_with_llama returns the patterns it kept; queue_predictions
\* is called unless there are none
SchedulerAnalyze ==
    /\ sched.pc = "user"
    /\ prod["p1"].pc = "idle"
    /\ LET user_id == sched.users[sched.u]
       IN  \E raw \in SeqsUpTo(Candidates(user_id), MaxPatterns) :
             LET patterns == analyze_patterns_with_llama(raw)
                 counted == [sched EXCEPT !.total_patterns =
                                            sched.total_patterns + Len(patterns)]
             IN  IF patterns = <<>>
                 THEN /\ sched' = NextUser(counted)
                      /\ prod' = prod
                 ELSE /\ Len(patterns) <= quota
                      /\ sched' = [counted EXCEPT !.pc = "queue"]
                      /\ prod' = [prod EXCEPT !["p1"] =
                                    [IdleProducer EXCEPT !.pc = "pattern",
                                                         !.user_id = user_id,
                                                         !.patterns = patterns,
                                                         !.k = 1]]
    /\ UNCHANGED <<quota, now, generation_queue, page_cache, cons>>

\* queue_predictions has returned: total_queued += queued
SchedulerCollect ==
    /\ sched.pc = "queue"
    /\ prod["p1"].pc = "done"
    /\ sched' = NextUser([sched EXCEPT !.total_queued =
                                         sched.total_queued + prod["p1"].queued_count])
    /\ prod' = [prod EXCEPT !["p1"] = IdleProducer]
    /\ UNCHANGED <<quota, now, generation_queue, page_cache, cons>>

\* ------------------------------------------------------------ the system

\* One Producer and one Consumer on an empty store.
Init ==
    /\ now = 0
    /\ generation_queue = <<>>
    /\ page_cache = <<>>
    /\ cons = [r \in Runs |-> IF r = "r1" THEN IdleRun ELSE OffRun]
    /\ prod = [p \in Producers |-> IF p = "p1" THEN IdleProducer ELSE OffProducer]
    /\ quota = MaxQueue
    /\ sched = OffScheduler

Next ==
    \/ \E r \in Runs :
         \/ GetPendingJobs(r)
         \/ UpdateProcessing(r)
         \/ GenerateComponents(r)
         \/ StoreInPageCache(r)
         \/ UpdateCompleted(r)
         \/ StoreError(r)
         \/ HandleJobFailure(r)
         \/ HandleJobFailureError(r)
         \/ FatalSetup(r)
         \/ Return(r)
         \/ Crash(r)
    \/ \E p \in Producers :
         \/ QueuePredictions(p)
         \/ ParsePattern(p)
         \/ CheckQueue(p)
         \/ CheckCache(p)
         \/ InsertQueue(p)
         \/ QueueError(p)
         \/ ProducerReturn(p)
    \/ Tick

Spec == Init /\ [][Next]_vars

\* Two overlapping Consumer runs on a queue Admit has filled.
OverlapQueues ==
    { <<QueueRow(1, "u1", pattern, t)>> :
        pattern \in { c \in Candidates("u1") : c.confidence >= QUEUE_CONFIDENCE },
        t \in {0, 1} }

InitOverlap ==
    /\ now = 0
    /\ generation_queue \in OverlapQueues
    /\ page_cache = <<>>
    /\ cons = [r \in Runs |-> IdleRun]
    /\ prod = [p \in Producers |-> OffProducer]
    /\ quota = 0
    /\ sched = OffScheduler

NextOverlap ==
    \/ \E r \in Runs :
         \/ GetPendingJobs(r)
         \/ UpdateProcessing(r)
         \/ GenerateComponents(r)
         \/ StoreInPageCache(r)
         \/ UpdateCompleted(r)
         \/ StoreError(r)
         \/ HandleJobFailure(r)
         \/ HandleJobFailureError(r)
         \/ FatalSetup(r)
         \/ Return(r)
         \/ Crash(r)
    \/ Tick

SpecOverlap == InitOverlap /\ [][NextOverlap]_vars

\* Admission with room for a second row: one Producer, one Consumer, every
\* statement succeeding.
InitAdmit ==
    /\ now = 0
    /\ generation_queue = <<>>
    /\ page_cache = <<>>
    /\ cons = [r \in Runs |-> IF r = "r1" THEN IdleRun ELSE OffRun]
    /\ prod = [p \in Producers |-> IF p = "p1" THEN IdleProducer ELSE OffProducer]
    /\ quota = MaxAdmit
    /\ sched = OffScheduler

NextAdmit ==
    \/ \E r \in Runs :
         \/ GetPendingJobs(r)
         \/ UpdateProcessing(r)
         \/ GenerateComponents(r)
         \/ StoreInPageCache(r)
         \/ UpdateCompleted(r)
         \/ HandleJobFailure(r)
         \/ Return(r)
    \/ \E p \in Producers :
         \/ QueuePredictions(p)
         \/ ParsePattern(p)
         \/ CheckQueue(p)
         \/ CheckCache(p)
         \/ InsertQueue(p)
         \/ ProducerReturn(p)
    \/ Tick

SpecAdmit == InitAdmit /\ [][NextAdmit]_vars

\* One Consumer run on a queue that holds about MAX_JOBS_PER_RUN due rows,
\* each as Admit inserts it, with priorities 71, 72, ...
BatchRow(i) ==
    QueueRow(i, "u1", Pattern(700 + 10 * i, <<"m">>, <<"M", " ">>, IsoTrigger(0)), 0)

InitBatch ==
    /\ now = 0
    /\ \E n \in (MAX_JOBS_PER_RUN - 1)..(MAX_JOBS_PER_RUN + BatchExtra) :
         generation_queue = [i \in 1..n |-> BatchRow(i)]
    /\ page_cache = <<>>
    /\ cons = [r \in Runs |-> IF r = "r1" THEN IdleRun ELSE OffRun]
    /\ prod = [p \in Producers |-> OffProducer]
    /\ quota = 0
    /\ sched = OffScheduler

NextBatch ==
    \E r \in Runs :
        \/ GetPendingJobs(r)
        \/ UpdateProcessing(r)
        \/ GenerateComponents(r)
        \/ StoreInPageCache(r)
        \/ UpdateCompleted(r)
        \/ HandleJobFailure(r)

SpecBatch == InitBatch /\ [][NextBatch]_vars

\* The SELECT of get_pending_jobs applied to tables drawn from bounded sets,
\* with its LIMIT drawn from 1..SelectRows, and the run that processes the batch.
SelectRow(i, confidence, t) ==
    QueueRow(i, "u1", Pattern(confidence, <<"m">>, Absent, IsoTrigger(t)), t)

InitSelect ==
    /\ now = 1
    /\ \E cs \in [1..SelectRows -> {700, 900}], ts \in [1..SelectRows -> 0..2] :
         generation_queue = [i \in 1..SelectRows |-> SelectRow(i, cs[i], ts[i])]
    /\ page_cache = <<>>
    /\ cons = [r \in Runs |-> IF r = "r1" THEN IdleRun ELSE OffRun]
    /\ prod = [p \in Producers |-> OffProducer]
    /\ quota = 0
    /\ sched = OffScheduler

NextSelect ==
    \E r \in Runs :
        \/ \E k \in 1..SelectRows : GetPendingJobsLimit(r, k)
        \/ UpdateProcessing(r)
        \/ GenerateComponents(r)
        \/ StoreInPageCache(r)
        \/ UpdateCompleted(r)
        \/ HandleJobFailure(r)

SpecSelect == InitSelect /\ [][NextSelect]_vars

\* Admission and generation of candidates with and without a predicted_query:
\* one Producer, one Consumer, every statement succeeding.
DedupCandidates ==
    { Pattern(800, <<"m">>, Absent, NoTrigger),
      Pattern(850, <<"w">>, <<"W", " ">>, IsoTrigger(0)) }

QueueDedupCandidates(p) ==
    \E raw \in SeqsUpTo(DedupCandidates, MaxPatterns) :
        QueuePredictionsOf(p, "u1", raw)

InitDedup ==
    /\ now = 0
    /\ generation_queue = <<>>
    /\ page_cache = <<>>
    /\ cons = [r \in Runs |-> IF r = "r1" THEN IdleRun ELSE OffRun]
    /\ prod = [p \in Producers |-> IF p = "p1" THEN IdleProducer ELSE OffProducer]
    /\ quota = MaxAdmit
    /\ sched = OffScheduler

NextDedup ==
    \/ \E r \in Runs :
         \/ GetPendingJobs(r)
         \/ UpdateProcessing(r)
         \/ GenerateComponents(r)
         \/ StoreInPageCache(r)
         \/ UpdateCompleted(r)
         \/ HandleJobFailure(r)
         \/ Return(r)
    \/ \E p \in Producers :
         \/ QueueDedupCandidates(p)
         \/ ParsePattern(p)
         \/ CheckQueue(p)
         \/ CheckCache(p)
         \/ InsertQueue(p)
         \/ ProducerReturn(p)
    \/ Tick

SpecDedup == InitDedup /\ [][NextDedup]_vars

\* generate_cache_key applied by a Consumer run to every owner and every
\* query of at most MaxLen characters over upper case, lower case and blank.
Queries == SeqsUpTo({"M", "m", " "}, MaxLen)

KeyRow(user_id, query) ==
    QueueRow(1, user_id, Pattern(800, <<"m">>, query, NoTrigger), 0)

InitKeys ==
    /\ now = 0
    /\ \E user_id \in Users, query \in Queries :
         generation_queue = <<KeyRow(user_id, query)>>
    /\ page_cache = <<>>
    /\ cons = [r \in Runs |-> IF r = "r1" THEN IdleRun ELSE OffRun]
    /\ prod = [p \in Producers |-> OffProducer]
    /\ quota = 0
    /\ sched = OffScheduler

NextKeys ==
    \E r \in Runs :
        \/ GetPendingJobs(r)
        \/ UpdateProcessing(r)
        \/ GenerateComponents(r)
        \/ StoreInPageCache(r)
        \/ UpdateCompleted(r)
        \/ HandleJobFailure(r)

SpecKeys == InitKeys /\ [][NextKeys]_vars

\* Two overlapping Consumer runs on two due rows of one owner whose results
\* go under the same key or under different keys.
UpsertQueues ==
    { << QueueRow(1, "u1", Pattern(800, <<"m">>, <<"M", " ">>, IsoTrigger(0)), 0),
         QueueRow(2, "u1", Pattern(900, <<"w">>, query, IsoTrigger(0)), 0) >> :
        query \in { <<"m">>, <<"w">> } }

InitUpsert ==
    /\ now = 0
    /\ generation_queue \in UpsertQueues
    /\ page_cache = <<>>
    /\ cons = [r \in Runs |-> IdleRun]
    /\ prod = [p \in Producers |-> OffProducer]
    /\ quota = 0
    /\ sched = OffScheduler

NextUpsert ==
    \/ \E r \in Runs :
         \/ GetPendingJobs(r)
         \/ UpdateProcessing(r)
         \/ GenerateComponents(r)
         \/ StoreInPageCache(r)
         \/ UpdateCompleted(r)
         \/ HandleJobFailure(r)
    \/ Tick

SpecUpsert == InitUpsert /\ [][NextUpsert]_vars

\* queue_predictions applied to one candidate drawn from every confidence
\* from 0.590 to 1.000 in thousandths, with and without predicted_query,
\* with every kind of trigger time, on a store that is empty, holds a row
\* queued ahead for the same predicted_action, holds a live cache entry for
\* the same query, or holds that entry and a row for another
\* predicted_action; every statement succeeds.
Confidences == 590..1000

CandidateInputs ==
    { Pattern(confidence, <<"m">>, query, trigger) :
        confidence \in Confidences,
        query \in { Absent, <<"m">> },
        trigger \in { NoTrigger, BadTrigger, IsoTrigger(0), IsoTrigger(1) } }

QueueCandidate(p) ==
    /\ prod[p].pc = "idle"
    /\ quota > 0
    /\ \E candidate \in CandidateInputs :
         QueuePredictionsOf(p, "u1", <<candidate>>)

InitCandidate ==
    /\ now = 0
    /\ \/ generation_queue = <<>> /\ page_cache = <<>>
       \/ /\ generation_queue =
                << QueueRow(1, "u1", Pattern(800, <<"m">>, Absent, NoTrigger),
                            now + Minutes30) >>
          /\ page_cache = <<>>
       \/ /\ generation_queue = <<>>
          /\ page_cache =
                << [id |-> uuid4(1), user_id |-> "u1",
                    cache_key |-> consumer_generate_cache_key("u1", <<"m">>),
                    query |-> <<"m">>, components |-> 1,
                    relevance_score |-> 800,
                    valid_until |-> now + Minutes30, created_at |-> now] >>
       \/ /\ generation_queue =
                << QueueRow(1, "u1", Pattern(800, <<"w">>, <<"m">>, NoTrigger),
                            now + Minutes30) >>
          /\ page_cache =
                << [id |-> uuid4(1), user_id |-> "u1",
                    cache_key |-> consumer_generate_cache_key("u1", <<"m">>),
                    query |-> <<"m">>, components |-> 1,
                    relevance_score |-> 800,
                    valid_until |-> now + Minutes30, created_at |-> now] >>
    /\ cons = [r \in Runs |-> OffRun]
    /\ prod = [p \in Producers |-> IF p = "p1" THEN IdleProducer ELSE OffProducer]
    /\ quota = 1
    /\ sched = OffScheduler

NextCandidate ==
    \E p \in Producers :
        \/ QueueCandidate(p)
        \/ ParsePattern(p)
        \/ CheckQueue(p)
        \/ CheckCache(p)
        \/ InsertQueue(p)
        \/ ProducerReturn(p)

SpecCandidate == InitCandidate /\ [][NextCandidate]_vars

\* Consumer runs, one after another, on a queue of two due rows, where any
\* store statement may raise.
InitFaults ==
    /\ now = 0
    /\ generation_queue = <<BatchRow(1), BatchRow(2)>>
    /\ page_cache = <<>>
    /\ cons = [r \in Runs |-> IF r = "r1" THEN IdleRun ELSE OffRun]
    /\ prod = [p \in Producers |-> OffProducer]
    /\ quota = 0
    /\ sched = OffScheduler

NextFaults ==
    \E r \in Runs :
        \/ GetPendingJobs(r)
        \/ UpdateProcessing(r)
        \/ GenerateComponents(r)
        \/ StoreInPageCache(r)
        \/ UpdateCompleted(r)
        \/ StoreError(r)
        \/ HandleJobFailure(r)
        \/ HandleJobFailureError(r)
        \/ FatalSetup(r)
        \/ Return(r)

SpecFaults == InitFaults /\ [][NextFaults]_vars

\* One queue_predictions call on an empty store with a list of up to MaxList
\* candidates of one owner, where any statement of the try block may raise.
ListCandidates ==
    { Pattern(800, <<"m">>, Absent, NoTrigger),
      Pattern(900, <<"w">>, <<"w">>, IsoTrigger(0)),
      Pattern(700, <<"w", "m">>, <<"m">>, BadTrigger),
      Pattern(650, <<"m", "w">>, Absent, NoTrigger) }

QueueList(p) ==
    \E raw \in SeqsUpTo(ListCandidates, MaxList) :
        QueuePredictionsOf(p, "u1", raw)

InitList ==
    /\ now = 0
    /\ generation_queue = <<>>
    /\ page_cache = <<>>
    /\ cons = [r \in Runs |-> OffRun]
    /\ prod = [p \in Producers |-> IF p = "p1" THEN IdleProducer ELSE OffProducer]
    /\ quota = MaxList
    /\ sched = OffScheduler

NextList ==
    \E p \in Producers :
        \/ QueueList(p)
        \/ ParsePattern(p)
        \/ CheckQueue(p)
        \/ CheckCache(p)
        \/ InsertQueue(p)
        \/ QueueError(p)

SpecList == InitList /\ [][NextList]_vars

\* Consumer runs, one after another as the schedule starts them, on a queue
\* of due rows that stay inside their validity window, where generation
\* fails at every call.  The schedule keeps starting runs and a started run
\* keeps executing: weak fairness of the next-state action.
InitRetry ==
    /\ now = 0
    /\ \E cs \in [1..SelectRows -> {700, 900}] :
         generation_queue = [i \in 1..SelectRows |-> SelectRow(i, cs[i], 0)]
    /\ page_cache = <<>>
    /\ cons = [r \in Runs |-> IF r = "r1" THEN IdleRun ELSE OffRun]
    /\ prod = [p \in Producers |-> OffProducer]
    /\ quota = 0
    /\ sched = OffScheduler

NextRetry ==
    \E r \in Runs :
        \/ GetPendingJobs(r)
        \/ UpdateProcessing(r)
        \/ GenerateFails(r)
        \/ HandleJobFailure(r)
        \/ Return(r)

SpecRetry == InitRetry /\ [][NextRetry]_vars /\ WF_vars(NextRetry)

\* One Producer handler run over the active users on an empty store, where
\* the inference capability, the activity query and the statements of
\* queue_predictions may fail.
InitScheduler ==
    /\ now = 0
    /\ generation_queue = <<>>
    /\ page_cache = <<>>
    /\ cons = [r \in Runs |-> OffRun]
    /\ prod = [p \in Producers |-> IF p = "p1" THEN IdleProducer ELSE OffProducer]
    /\ quota = MaxAdmit
    /\ sched = IdleScheduler

NextScheduler ==
    \/ SchedulerStart
    \/ SchedulerFatal
    \/ SchedulerNoActivity
    \/ SchedulerInferenceFails
    \/ SchedulerAnalyze
    \/ SchedulerCollect
    \/ \E p \in Producers :
         \/ ParsePattern(p)
         \/ CheckQueue(p)
         \/ CheckCache(p)
         \/ InsertQueue(p)
         \/ QueueError(p)

SpecScheduler == InitScheduler /\ [][NextScheduler]_vars

\* Two overlapping queue_predictions calls for the same owner on an empty
\* store, every statement succeeding.
InitProducers ==
    /\ now = 0
    /\ generation_queue = <<>>
    /\ page_cache = <<>>
    /\ cons = [r \in Runs |-> OffRun]
    /\ prod = [p \in Producers |-> IdleProducer]
    /\ quota = MaxAdmit
    /\ sched = OffScheduler

NextProducers ==
    \/ \E p \in Producers :
         \/ QueueDedupCandidates(p)
         \/ ParsePattern(p)
         \/ CheckQueue(p)
         \/ CheckCache(p)
         \/ InsertQueue(p)
         \/ ProducerReturn(p)
    \/ Tick

SpecProducers == InitProducers /\ [][NextProducers]_vars

\* A queued row that runs out of its validity window while Consumer runs
\* (with store errors and kills) and Admit calls for the same owner go on.
InitExpiry ==
    /\ now = 0
    /\ \E t \in {0, 1} :
         generation_queue =
             << QueueRow(1, "u1", Pattern(800, <<"m">>, Absent, NoTrigger), t) >>
    /\ page_cache = <<>>
    /\ cons = [r \in Runs |-> IF r = "r1" THEN IdleRun ELSE OffRun]
    /\ prod = [p \in Producers |-> IF p = "p1" THEN IdleProducer ELSE OffProducer]
    /\ quota = 1
    /\ sched = OffScheduler

NextExpiry ==
    \/ \E r \in Runs :
         \/ GetPendingJobs(r)
         \/ UpdateProcessing(r)
         \/ GenerateComponents(r)
         \/ StoreInPageCache(r)
         \/ UpdateCompleted(r)
         \/ StoreError(r)
         \/ HandleJobFailure(r)
         \/ Return(r)
         \/ Crash(r)
    \/ \E p \in Producers :
         \/ QueueDedupCandidates(p)
         \/ ParsePattern(p)
         \/ CheckQueue(p)
         \/ CheckCache(p)
         \/ InsertQueue(p)
         \/ ProducerReturn(p)
    \/ Tick

SpecExpiry == InitExpiry /\ [][NextExpiry]_vars

\* queue_predictions applied, at any time of the clock, to one candidate
\* that states no trigger time or any trigger time of the clock, earlier
\* than now included; the call is over before the clock moves.
TriggerInputs ==
    { Pattern(confidence, <<"m">>, query, trigger) :
        confidence \in { 700, 850, 1000 },
        query \in { Absent, <<"m">> },
        trigger \in { NoTrigger } \cup { IsoTrigger(t) : t \in 0..MaxTime } }

QueueTrigger(p) ==
    /\ prod[p].pc = "idle"
    /\ quota > 0
    /\ \E candidate \in TriggerInputs :
         QueuePredictionsOf(p, "u1", <<candidate>>)

InitTrigger ==
    /\ now \in 0..MaxTime
    /\ generation_queue = <<>>
    /\ page_cache = <<>>
    /\ cons = [r \in Runs |-> OffRun]
    /\ prod = [p \in Producers |-> IF p = "p1" THEN IdleProducer ELSE OffProducer]
    /\ quota = 1
    /\ sched = OffScheduler

NextTrigger ==
    \E p \in Producers :
        \/ QueueTrigger(p)
        \/ ParsePattern(p)
        \/ CheckQueue(p)
        \/ CheckCache(p)
        \/ InsertQueue(p)
        \/ ProducerReturn(p)

SpecTrigger == InitTrigger /\ [][NextTrigger]_vars

\* ------------------------------------------------------------ claims

\* the rows of generation_queue
Ids == 1..Len(generation_queue)

\* run r holds its current job claimed: marked processing, not yet resolved
Holds(r) == cons[r].pc \in {"generate", "store", "complete"}

\* this step is run r's UPDATE ... SET status = 'processing'
MarksProcessing(r) == cons[r].pc = "mark" /\ cons'[r].pc = "generate"

\* this step is run r's call of the generation capability
InvokesGeneration(r) ==
    cons[r].pc = "generate" /\ cons'[r].invoked = cons[r].invoked + 1

\* C1: with two overlapping Consumer runs no WorkItem is claimed by both: a
\* run marks an item processing only if the item is still queued, and never
\* calls the generation capability for an item another run holds claimed.
C1_ClaimIsAtomic ==
    [][\A r \in Runs :
         /\ MarksProcessing(r) =>
               generation_queue[Job(r).id].status = "queued"
         /\ InvokesGeneration(r) =>
               \A o \in Runs \ {r} :
                   ~(Holds(o) /\ Job(o).id = Job(r).id)]_vars

\* C2: every status change is queued -> processing, processing -> completed,
\* processing -> queued or processing -> failed, and a completed or failed
\* item never changes its status or attempts again.
C2_StatusMachine ==
    [][\A id \in Ids :
         LET old == generation_queue[id]
             new == generation_queue'[id]
         IN  /\ old.status # new.status =>
                   <<old.status, new.status>> \in
                       { <<"queued", "processing">>, <<"processing", "completed">>,
                         <<"processing", "queued">>, <<"processing", "failed">> }
             /\ old.status \in {"completed", "failed"} =>
                   new.status = old.status /\ new.attempts = old.attempts]_vars

\* C3: attempts of a WorkItem never decreases, whatever the interleaving of
\* overlapping Consumer runs.
C3_AttemptsMonotone ==
    [][\A id \in Ids :
         generation_queue'[id].attempts >= generation_queue[id].attempts]_vars

\* C4: in every reachable state every WorkItem has 0 <= attempts <= 3
\* (MAX_ATTEMPTS).
C4_AttemptsBounded ==
    /\ MAX_ATTEMPTS = 3
    /\ \A id \in Ids :
         /\ 0 <= generation_queue[id].attempts
         /\ generation_queue[id].attempts <= 3

\* C4 witness: an item has failed three times and is failed at attempts = 3
C4_Witness ==
    \E id \in Ids :
        /\ generation_queue[id].attempts = 3
        /\ generation_queue[id].status = "failed"

\* C5: no WorkItem is moved to processing, or sent to the generation
\* capability, at an instant when its valid_until is in the past.
C5_NoExpiredClaim ==
    [][\A r \in Runs :
         (MarksProcessing(r) \/ InvokesGeneration(r)) =>
             ~(generation_queue[Job(r).id].valid_until < now)]_vars

\* this step is run r's get_pending_jobs returning its batch
Selects(r) ==
    cons[r].pc = "idle" /\ cons'[r].pc \in {"mark", "done"}
                        /\ cons'[r].result # "fatal"

\* the rows that satisfy the four conditions at this instant
EligibleIds ==
    { id \in Ids :
        /\ generation_queue[id].status = "queued"
        /\ generation_queue[id].scheduled_for <= now
        /\ generation_queue[id].valid_until > now
        /\ generation_queue[id].attempts < 3 }

SelectedIds(jobs) == { jobs[n].id : n \in 1..Len(jobs) }

\* C6: every selected item is queued, due, unexpired and below MAX_ATTEMPTS
\* at selection time; when fewer than MAX_JOBS_PER_RUN items are eligible
\* all of them are selected; no item is moved to processing before its
\* scheduled_for.
C6_SelectionEligible ==
    [][\A r \in Runs :
         /\ Selects(r) =>
               /\ SelectedIds(cons'[r].jobs) \subseteq EligibleIds
               /\ Cardinality(EligibleIds) < MAX_JOBS_PER_RUN =>
                     SelectedIds(cons'[r].jobs) = EligibleIds
         /\ MarksProcessing(r) =>
               generation_queue[Job(r).id].scheduled_for <= now]_vars

\* C6 witness: a run holds claimed an item that became due only after the
\* clock advanced
C6_Witness ==
    \E r \in Runs :
        /\ Holds(r)
        /\ now > 0
        /\ Job(r).scheduled_for = now
        /\ generation_queue[Job(r).id].status = "processing"

\* job a is ahead of job b in priority DESC, scheduled_for ASC
Outranks(a, b) ==
    \/ a.priority > b.priority
    \/ a.priority = b.priority /\ a.scheduled_for < b.scheduled_for

\* priorities [90, 50, 90] with scheduled times [t0, t0, t0 - 1], t0 = 1
ExampleTable ==
    << SelectRow(1, 900, 1), SelectRow(2, 500, 1), SelectRow(3, 900, 0) >>

\* C7: the batch is the eligible items in order priority DESC, scheduled_for
\* ASC, cut to the first k when limited to k, and the run handles the batch
\* one job after the other in that order; on the example a claim of size 2
\* is the two priority-90 items, the one scheduled at t0 - 1 first.
C7_SelectionOrder ==
    /\ SelectQuery(ExampleTable, 1, MAX_ATTEMPTS, 2) =
          { << JobOf(ExampleTable[3]), JobOf(ExampleTable[1]) >> }
    /\ [][\A r \in Runs :
            LET jobs == cons'[r].jobs
                left == EligibleIds \ SelectedIds(jobs)
            IN  /\ Selects(r) =>
                      /\ Len(jobs) = Min(cons'[r].limit, Cardinality(EligibleIds))
                      /\ Cardinality(SelectedIds(jobs)) = Len(jobs)
                      /\ SelectedIds(jobs) \subseteq EligibleIds
                      /\ \A m, n \in 1..Len(jobs) :
                            m < n => ~Outranks(jobs[n], jobs[m])
                      /\ \A id \in left : \A n \in 1..Len(jobs) :
                            ~Outranks(generation_queue[id], jobs[n])
                /\ ~Selects(r) /\ cons'[r].pc # "idle" =>
                      /\ jobs = cons[r].jobs
                      /\ cons'[r].i \in {cons[r].i, cons[r].i + 1}
                /\ MarksProcessing(r) =>
                      /\ generation_queue'[Job(r).id].status = "processing"
                      /\ \A n \in 1..(cons[r].i - 1) :
                            generation_queue[cons[r].jobs[n].id].status
                                # "processing"]_vars

\* C7 witness: a run limited to 2 took the two priority-90 rows of three
\* due rows, the earlier-scheduled one first, and has handled both
C7_Witness ==
    \E r \in Runs :
        /\ cons[r].pc = "done"
        /\ cons[r].limit = 2
        /\ Len(cons[r].jobs) = 2
        /\ cons[r].jobs[1].priority = 90 /\ cons[r].jobs[2].priority = 90
        /\ cons[r].jobs[1].scheduled_for < cons[r].jobs[2].scheduled_for
        /\ \E id \in Ids :
              /\ generation_queue[id].priority = 70
              /\ generation_queue[id].scheduled_for <= now
              /\ generation_queue[id].status = "queued"
              /\ generation_queue[id].attempts = 0

\* C8: one Consumer run moves at most MAX_JOBS_PER_RUN (10) WorkItems to
\* processing and calls the generation capability at most 10 times.
C8_RunIsBounded ==
    /\ MAX_JOBS_PER_RUN = 10
    /\ \A r \in Runs : cons[r].claimed <= 10 /\ cons[r].invoked <= 10

\* C8 witness: a run has claimed and generated for 10 items while an
\* eligible item was left untouched
C8_Witness ==
    \E r \in Runs :
        /\ cons[r].pc = "done"
        /\ cons[r].claimed = 10 /\ cons[r].invoked = 10
        /\ \E id \in EligibleIds : generation_queue[id].attempts = 0

\* this step is Admit deciding to insert the current candidate
DecidesInsert(p) ==
    prod[p].pc \in {"checkA", "checkB"} /\ prod'[p].pc = "insert"

\* C9: Admit does not insert a candidate whose (owner, predicted_action)
\* already has a WorkItem that is queued and unexpired, also when that
\* item is already due.
C9_AdmitIdempotent ==
    [][\A p \in Producers :
         DecidesInsert(p) =>
             ~\E id \in Ids :
                 /\ generation_queue[id].user_id = prod[p].user_id
                 /\ generation_queue[id].predicted_need =
                        CurrentPattern(p).predicted_action
                 /\ generation_queue[id].status = "queued"
                 /\ generation_queue[id].valid_until > now]_vars

\* C10: Admit does not insert a candidate when a CacheEntry for (owner,
\* fingerprint(owner, predicted_query)) with valid_until > now exists.
C10_CacheBlocksAdmit ==
    [][\A p \in Producers :
         DecidesInsert(p) /\ CurrentPattern(p).predicted_query # Absent =>
             ~\E n \in 1..Len(page_cache) :
                 /\ page_cache[n].user_id = prod[p].user_id
                 /\ page_cache[n].cache_key =
                        generate_cache_key(prod[p].user_id,
                                           CurrentPattern(p).predicted_query)
                 /\ page_cache[n].valid_until > now]_vars

\* the key store_in_page_cache writes a candidate's result under
StoredKey(user_id, pattern) ==
    consumer_generate_cache_key(user_id, StoreQuery(pattern))

\* C11: the key the Consumer stores a candidate's result under is the key
\* Admit's cache check looks up for that candidate and owner: Admit never
\* decides to insert a candidate while a live CacheEntry written for that
\* same candidate exists, also when the candidate carries a predicted_action
\* but no (or an empty) predicted_query.
C11_StoredKeyIsLookedUp ==
    [][\A p \in Producers :
         DecidesInsert(p) =>
             ~\E id \in Ids, n \in 1..Len(page_cache) :
                 /\ generation_queue[id].user_id = prod[p].user_id
                 /\ generation_queue[id].context_data = CurrentPattern(p)
                 /\ generation_queue[id].status = "completed"
                 /\ page_cache[n].user_id = prod[p].user_id
                 /\ page_cache[n].cache_key =
                        StoredKey(prod[p].user_id, CurrentPattern(p))
                 /\ page_cache[n].valid_until > now]_vars

\* case folding of one character and trimming of surrounding blanks, stated
\* on positions rather than by recursion
Fold(c) == IF c = "M" THEN "m" ELSE IF c = "W" THEN "w" ELSE c

Trimmed(q) ==
    LET solid == { i \in 1..Len(q) : q[i] # " " }
    IN  IF solid = {} THEN <<>>
        ELSE LET first == CHOOSE i \in solid : \A j \in solid : i <= j
                 last == CHOOSE i \in solid : \A j \in solid : j <= i
             IN  SubSeq(q, first, last)

Folded(q) == [i \in 1..Len(q) |-> Fold(q[i])]

\* C12: the key is a function of the owner and the normalised query: the key
\* the Consumer stored an entry under is the key the Producer's
\* generate_cache_key gives, for the same owner, to every query that equals
\* the entry's query after case folding and trimming.
C12_KeyIsNormalising ==
    \A n \in 1..Len(page_cache) :
    \A q \in Queries :
        Folded(Trimmed(q)) = Folded(Trimmed(page_cache[n].query)) =>
            generate_cache_key(page_cache[n].user_id, q) = page_cache[n].cache_key

\* C12 witness: an entry was stored for a query in upper case with a
\* trailing blank, under the key of the folded, trimmed query
C12_Witness ==
    \E n \in 1..Len(page_cache) :
        /\ page_cache[n].query = <<"M", " ">>
        /\ page_cache[n].cache_key = generate_cache_key(page_cache[n].user_id, <<"m">>)

\* the entries of page_cache stored for an owner under a key
Slot(cache, user_id, cache_key) ==
    { n \in 1..Len(cache) :
        cache[n].user_id = user_id /\ cache[n].cache_key = cache_key }

\* this step is run r's cache write
WritesCache(r) == cons[r].pc = "store" /\ cons'[r].pc = "complete"

\* C13: in every reachable state, whatever cache writes overlapping Consumer
\* runs have made, at most one CacheEntry with valid_until in the future
\* exists per (owner, key).
C13_OneLiveEntryPerKey ==
    \A n, m \in 1..Len(page_cache) :
        /\ page_cache[n].user_id = page_cache[m].user_id
        /\ page_cache[n].cache_key = page_cache[m].cache_key
        /\ page_cache[n].valid_until > now
        /\ page_cache[m].valid_until > now
        => n = m

\* C13 witness: two runs have both written results of different WorkItems
\* under one (owner, key), and the entry is live
C13_Witness ==
    /\ \A r \in Runs : cons[r].pc = "complete"
    /\ Job("r1").id # Job("r2").id
    /\ StoredKey(Job("r1").user_id, Job("r1").context_data) =
           StoredKey(Job("r2").user_id, Job("r2").context_data)
    /\ \E n \in 1..Len(page_cache) :
           /\ page_cache[n].cache_key =
                  StoredKey(Job("r1").user_id, Job("r1").context_data)
           /\ page_cache[n].valid_until > now

\* C14: a cache write under an (owner, key) that already has an entry leaves
\* exactly one entry there, and its content, relevance_score and valid_until
\* are those of this write (valid_until = time of this write + 30 minutes),
\* whatever the first write had put there.
C14_LastWriterWins ==
    [][\A r \in Runs :
         LET job == Job(r)
             cache_key == StoredKey(job.user_id, job.context_data)
         IN  WritesCache(r) /\ Slot(page_cache, job.user_id, cache_key) # {} =>
               /\ Len(page_cache') = Len(page_cache)
               /\ Cardinality(Slot(page_cache', job.user_id, cache_key)) = 1
               /\ \A n \in Slot(page_cache', job.user_id, cache_key) :
                    /\ page_cache'[n].components = job.id
                    /\ page_cache'[n].relevance_score = job.context_data.confidence
                    /\ page_cache'[n].valid_until = now + Minutes30]_vars

\* C14 witness: the entry first written for WorkItem 1 (confidence 0.8) at
\* time 0 now carries the result of WorkItem 2 (confidence 0.9), written later
C14_Witness ==
    /\ Len(page_cache) = 1
    /\ page_cache[1].id = uuid4(1)
    /\ page_cache[1].query = <<"M", " ">>
    /\ page_cache[1].components = 2
    /\ page_cache[1].relevance_score = 900
    /\ page_cache[1].created_at > 0
    /\ page_cache[1].valid_until = page_cache[1].created_at + Minutes30

\* C15: every completed WorkItem has result_cache_key equal to the key of
\* the CacheEntry its result was written to, for the item's owner, whether
\* the write inserted the entry or overwrote an existing one.
C15_ResultKeyIsFingerprint ==
    \A id \in Ids :
        generation_queue[id].status = "completed" =>
            generation_queue[id].result_cache_key =
                StoredKey(generation_queue[id].user_id,
                          generation_queue[id].context_data)

\* this step takes Admit past the INSERT for the current candidate
LeavesInsert(p) == prod[p].pc = "insert" /\ prod'[p].pc # "insert"

\* this step is Admit's INSERT for the current candidate, committed
InsertsRow(p) ==
    LeavesInsert(p) /\ prod'[p].queued_count = prod[p].queued_count + 1

\* this step is Admit's threshold test and trigger time parse
ParsesCandidate(p) == prod[p].pc = "pattern" /\ prod'[p] # prod[p]

\* C16: no WorkItem is created from a candidate with confidence < 0.7 (e.g.
\* 0.65, which the inference filter lets through): such a candidate is left
\* without any store access; and a candidate that has passed the threshold,
\* the trigger time parse and both dedup checks creates exactly one WorkItem.
C16_QueueThreshold ==
    /\ [](\A id \in Ids : generation_queue[id].context_data.confidence >= 700)
    /\ [][\A p \in Producers :
            /\ ParsesCandidate(p) /\ CurrentPattern(p).confidence < 700 =>
                  /\ prod'[p].pc \in {"pattern", "done"}
                  /\ generation_queue' = generation_queue
            /\ LeavesInsert(p) =>
                  /\ CurrentPattern(p).confidence >= 700
                  /\ Len(generation_queue') = Len(generation_queue) + 1
                  /\ SubSeq(generation_queue', 1, Len(generation_queue)) =
                         generation_queue
                  /\ generation_queue'[Len(generation_queue')].user_id =
                         prod[p].user_id
                  /\ generation_queue'[Len(generation_queue')].context_data =
                         CurrentPattern(p)
                  /\ prod'[p].queued_count = prod[p].queued_count + 1]_vars

\* C16 witness: a candidate with confidence exactly 0.7 has been queued, and
\* the run that queued it counts one queued prediction
C16_Witness ==
    /\ \E id \in Ids : generation_queue[id].context_data.confidence = 700
    /\ \E p \in Producers : prod[p].pc = "done" /\ prod[p].queued_count = 1

\* C17: when the trigger time of a candidate at or above the threshold is
\* absent or cannot be parsed, Admit goes on to the dedup checks with
\* trigger_time = now + 30 minutes; the candidate is not dropped.
C17_TriggerDefault ==
    [][\A p \in Producers :
         /\ ParsesCandidate(p)
         /\ CurrentPattern(p).confidence >= 700
         /\ CurrentPattern(p).trigger_time.kind \in {"absent", "bad"}
         => /\ prod'[p].pc = "checkA"
            /\ prod'[p].trigger_time = now + Minutes30]_vars

\* C18: every WorkItem has scheduled_for < valid_until in every reachable
\* state: Admit inserts it with scheduled_for = trigger_time, valid_until =
\* trigger_time + 1 hour, status queued, attempts 0, and no later step
\* (claim, complete, retry, fail) changes its scheduled_for or valid_until.
\* (1 hour is 2 units of time.)
C18_ValidityWindow ==
    /\ [](\A id \in Ids :
            generation_queue[id].scheduled_for < generation_queue[id].valid_until)
    /\ [][/\ Len(generation_queue') >= Len(generation_queue)
          /\ \A id \in Ids :
               /\ generation_queue'[id].scheduled_for =
                      generation_queue[id].scheduled_for
               /\ generation_queue'[id].valid_until =
                      generation_queue[id].valid_until
          /\ \A p \in Producers :
               InsertsRow(p) =>
                 LET row == generation_queue'[Len(generation_queue')]
                 IN  /\ row.scheduled_for = prod[p].trigger_time
                     /\ row.valid_until = prod[p].trigger_time + 2
                     /\ row.status = "queued"
                     /\ row.attempts = 0]_vars

\* C18 witness: an item Admit inserted has been claimed, has failed and is
\* queued again for a retry, its window as inserted
C18_Witness ==
    \E id \in Ids :
        /\ generation_queue[id].attempts = 1
        /\ generation_queue[id].status = "queued"
        /\ generation_queue[id].valid_until =
               generation_queue[id].scheduled_for + 2

\* round(confidence * 100) on a confidence in thousandths: the nearest
\* integer, either neighbour when the confidence lies half way
Rounded(confidence) ==
    IF confidence % 10 = 5
    THEN { confidence \div 10, confidence \div 10 + 1 }
    ELSE { (confidence + 5) \div 10 }

\* C19: the priority of every inserted WorkItem is round(confidence * 100)
\* of its candidate, for every confidence from 0.700 to 1.000 in thousandths.
C19_PriorityIsRounded ==
    \A id \in Ids :
        generation_queue[id].priority \in
            Rounded(generation_queue[id].context_data.confidence)

\* run r is inside the loop over its selected items
InLoop(r) == cons[r].pc \in {"mark", "generate", "store", "complete", "fail"}

\* C20: a failure while handling one item (generation error or empty result,
\* or a store statement that raises: mark processing, cache write, mark
\* completed, or the failure transition itself) does not stop the run: a
\* run leaves the loop only after its last selected item, and with a
\* summary result.
C20_FailureIsIsolated ==
    [][\A r \in Runs :
         InLoop(r) /\ cons'[r].pc = "done" =>
             /\ cons[r].i = Len(cons[r].jobs)
             /\ cons'[r].result = "summary"]_vars

FailureStep(r) == cons[r].pc = "fail" /\ cons'[r].errors = cons[r].errors + 1

\* C22: the failure transition of a processing item with stored attempts a
\* sets attempts to a + 1; if a + 1 < 3 the item returns to queued with
\* scheduled_for, valid_until, priority and payload unchanged, and if
\* a + 1 >= 3 the item becomes failed.
C22_FailureTransition ==
    [][\A r \in Runs :
         LET old == generation_queue[Job(r).id]
             new == generation_queue'[Job(r).id]
         IN  FailureStep(r) /\ old.status = "processing" =>
               /\ new.attempts = old.attempts + 1
               /\ old.attempts + 1 < 3 =>
                     /\ new.status = "queued"
                     /\ new.scheduled_for = old.scheduled_for
                     /\ new.valid_until = old.valid_until
                     /\ new.priority = old.priority
                     /\ new.context_data = old.context_data
               /\ old.attempts + 1 >= 3 => new.status = "failed"]_vars

HeldBy(r, id) ==
    /\ InLoop(r)
    /\ \E k \in cons[r].i..Len(cons[r].jobs) : cons[r].jobs[k].id = id

\* item id is processing and no run in progress has it ahead: the run that
\* claimed it ended without resolving it
Orphaned(id) ==
    /\ generation_queue[id].status = "processing"
    /\ \A r \in Runs : ~HeldBy(r, id)

\* C24: a WorkItem left in processing by a run that ended without resolving
\* it stays as it is for ever: no run that starts afterwards selects it, and
\* its status, attempts and result_cache_key never change.
C24_ProcessingIsStuck ==
    [][\A id \in Ids :
         Orphaned(id) =>
             /\ generation_queue'[id] = generation_queue[id]
             /\ \A r \in Runs :
                  cons'[r].pc \in {"mark", "generate", "store", "complete", "fail"}
                  => \A k \in cons'[r].i..Len(cons'[r].jobs) :
                         cons'[r].jobs[k].id # id]_vars

\* C24 witness: the item is processing, its run is gone, and every run has
\* since started, found nothing to select and returned
C24_Witness ==
    /\ \E id \in Ids : Orphaned(id)
    /\ \A r \in Runs :
          /\ cons[r].pc = "done"
          /\ cons[r].jobs = <<>>
          /\ cons[r].result = "summary"

\* this step is a failure of the inference capability for the current user
InferenceFails == sched'.failed # sched.failed

\* C25: in a Producer run a failure of the inference capability for one
\* owner counts as zero candidates for that owner: the step enqueues nothing
\* and starts no queue_predictions call, no WorkItem is ever queued for that
\* owner by the run, the run goes on to the next owner, and a run that got
\* past its setup ends with a summary.
C25_InferenceFailsOpen ==
    /\ [](/\ \A id \in Ids : generation_queue[id].user_id \notin sched.failed
          /\ sched.pc = "done" /\ sched.users # <<>> =>
                /\ sched.result = "summary"
                /\ sched.u = Len(sched.users))
    /\ [][InferenceFails =>
            /\ generation_queue' = generation_queue
            /\ prod' = prod
            /\ sched'.total_patterns = sched.total_patterns
            /\ sched'.total_queued = sched.total_queued
            /\ IF sched.u < Len(sched.users)
               THEN sched'.pc = "user" /\ sched'.u = sched.u + 1
               ELSE sched'.pc = "done" /\ sched'.result = "summary"]_vars

\* C25 witness: inference failed for the first owner, a prediction was
\* queued for the second, and the run returned its summary
C25_Witness ==
    /\ sched.pc = "done"
    /\ sched.result = "summary"
    /\ sched.users = <<"u2", "u1">>
    /\ sched.failed = {"u2"}
    /\ sched.total_queued = 1
    /\ \E id \in Ids : generation_queue[id].user_id = "u1"

\* C26: Admit's only effect on the store is the insertion of WorkItems: a
\* step of a queue_predictions call leaves every existing WorkItem and the
\* whole of page_cache as they are.
C26_AdmitOnlyInserts ==
    [][\A p \in Producers :
         prod'[p] # prod[p] =>
             /\ page_cache' = page_cache
             /\ Len(generation_queue') >= Len(generation_queue)
             /\ \A id \in Ids : generation_queue'[id] = generation_queue[id]]_vars

\* C26 witness: Admit has inserted a WorkItem beside an existing one, with a
\* CacheEntry in the store
C26_Witness ==
    /\ Len(generation_queue) = 2
    /\ generation_queue[1].predicted_need = <<"w">>
    /\ generation_queue[2].predicted_need = <<"m">>
    /\ Len(page_cache) = 1
    /\ \E p \in Producers : prod[p].pc = "done" /\ prod[p].queued_count = 1

\* C27: in every reachable state, overlapping Producer runs for the same
\* owner included, at most one WorkItem per (owner, predicted_action) is
\* queued with scheduled_for in the future.
C27_OneQueuedAhead ==
    \A a, b \in Ids :
        /\ generation_queue[a].user_id = generation_queue[b].user_id
        /\ generation_queue[a].predicted_need = generation_queue[b].predicted_need
        /\ generation_queue[a].status = "queued"
        /\ generation_queue[b].status = "queued"
        /\ generation_queue[a].scheduled_for > now
        /\ generation_queue[b].scheduled_for > now
        => a = b

\* C28: once a run has committed the generated result of a WorkItem to
\* page_cache, it does not put that WorkItem through the failure transition
\* (back to queued, or to failed), even if the statement that marks the item
\* completed raises.
C28_StoredMeansCompleted ==
    [][\A r \in Runs :
         \* cache_id is set by store_in_page_cache once its write is committed
         FailureStep(r) => cons[r].cache_id = NULL]_vars

\* C29: within one Consumer run each WorkItem is attempted at most once:
\* the batch fixed at selection names no item twice, the run has marked and
\* generated at most once per item it has reached, and no item's stored
\* attempts exceeds the value the run selected it with by more than 1.
C29_OnceEachPerRun ==
    \A r \in Runs :
        cons[r].pc \notin {"off", "idle"} =>
            /\ \A j, k \in 1..Len(cons[r].jobs) :
                  cons[r].jobs[j].id = cons[r].jobs[k].id => j = k
            /\ cons[r].claimed <= cons[r].i
            /\ cons[r].invoked <= cons[r].i
            /\ \A k \in 1..Len(cons[r].jobs) :
                  generation_queue[cons[r].jobs[k].id].attempts <=
                      cons[r].jobs[k].attempts + 1

\* C29 witness: a run has failed on both items of its batch and returned;
\* both are queued again with one more attempt, neither taken up again
C29_Witness ==
    \E r \in Runs :
        /\ cons[r].pc = "done"
        /\ Len(cons[r].jobs) = 2
        /\ cons[r].errors = 2
        /\ cons[r].invoked = 2
        /\ \A k \in 1..2 :
              /\ generation_queue[cons[r].jobs[k].id].status = "queued"
              /\ generation_queue[cons[r].jobs[k].id].attempts =
                     cons[r].jobs[k].attempts + 1

\* item id is queued and its valid_until has passed
Expired(id) ==
    /\ generation_queue[id].status = "queued"
    /\ generation_queue[id].valid_until <= now

\* Admit's current candidate is for the owner and predicted_action of item id
SameForecast(p, id) ==
    /\ generation_queue[id].user_id = prod[p].user_id
    /\ generation_queue[id].predicted_need = CurrentPattern(p).predicted_action

\* C30: a queued WorkItem whose valid_until has passed, and which no run in
\* progress has ahead in its batch, is never selected and never changed
\* again (it keeps status queued and its attempts), and it does not block
\* Admit of the same (owner, predicted_action): the queue check passes when
\* the only rows for that forecast are expired ones.
C30_ExpiredIsInert ==
    [][/\ \A id \in Ids :
            Expired(id) /\ (\A r \in Runs : ~HeldBy(r, id)) =>
                /\ generation_queue'[id] = generation_queue[id]
                /\ \A r \in Runs :
                     cons'[r].pc \in {"mark", "generate", "store", "complete", "fail"}
                     => \A k \in cons'[r].i..Len(cons'[r].jobs) :
                            cons'[r].jobs[k].id # id
       /\ \A p \in Producers :
            /\ prod[p].pc = "checkA" /\ prod'[p].pc # "checkA"
            /\ \E id \in Ids : SameForecast(p, id)
            /\ \A id \in Ids : SameForecast(p, id) => Expired(id)
            => prod'[p].pc \in {"checkB", "insert"}]_vars

\* C30 witness: the expired item is still queued with its attempts, a run
\* that started after its expiry found nothing to select, and Admit has
\* queued a new item for the same forecast beside it
C30_Witness ==
    /\ Len(generation_queue) = 2
    /\ Expired(1)
    /\ generation_queue[1].attempts = 0
    /\ generation_queue[2].predicted_need = generation_queue[1].predicted_need
    /\ generation_queue[2].user_id = generation_queue[1].user_id
    /\ generation_queue[2].scheduled_for > now
    /\ \E r \in Runs :
          cons[r].pc = "done" /\ cons[r].jobs = <<>> /\ cons[r].result = "summary"

\* C31: every WorkItem Admit inserts is claimable at some instant at or after
\* its insertion (status queued, attempts below the limit, and a time t >=
\* now with scheduled_for <= t < valid_until): its valid_until is still in
\* the future when it is inserted, whatever trigger time the candidate
\* states, a trigger time in the past included.
C31_InsertedIsClaimable ==
    [][\A p \in Producers :
         InsertsRow(p) =>
           LET row == generation_queue'[Len(generation_queue')]
           IN  /\ row.valid_until > now
               /\ \E t \in now..row.valid_until :
                     Eligible(row, t, MAX_ATTEMPTS)]_vars

\* the items run r has counted so far
Counted(run) == run.pages_generated + run.errors

\* C32: when a Consumer run ends with a summary, pages_generated + errors is
\* the number of items the run selected and jobs_processed equals
\* pages_generated (a failed item is counted only as an error); each selected
\* item is counted exactly once: inside the loop the items before the current
\* one are the counted ones, and a step counts at most one item, the current
\* one, as it leaves it.
C32_SummaryCounts ==
    /\ [](\A r \in Runs :
            /\ cons[r].jobs_processed = cons[r].pages_generated
            /\ InLoop(r) => Counted(cons[r]) = cons[r].i - 1
            /\ cons[r].pc = "done" /\ cons[r].result = "summary" =>
                  Counted(cons[r]) = Len(cons[r].jobs))
    /\ [][\A r \in Runs :
            InLoop(r) /\ cons'[r].pc # "idle" =>
              /\ cons'[r].pages_generated \in
                    { cons[r].pages_generated, cons[r].pages_generated + 1 }
              /\ cons'[r].errors \in { cons[r].errors, cons[r].errors + 1 }
              /\ Counted(cons'[r]) \in { Counted(cons[r]), Counted(cons[r]) + 1 }
              /\ Counted(cons'[r]) = Counted(cons[r]) + 1 <=>
                    \/ cons'[r].i = cons[r].i + 1
                    \/ cons'[r].pc = "done" /\ cons'[r].result = "summary"]_vars

\* C32 witness: a run over two items has returned its summary with one page
\* generated and one error
C32_Witness ==
    \E r \in Runs :
        /\ cons[r].pc = "done"
        /\ cons[r].result = "summary"
        /\ Len(cons[r].jobs) = 2
        /\ cons[r].pages_generated = 1
        /\ cons[r].jobs_processed = 1
        /\ cons[r].errors = 1

====
